---- MODULE Spec2Model ----
(***************************************************************************)
(* Model of the capture loop and header printers of tcp-sniffer            *)
(* (src/main.c): one raw socket, one BUF_SIZE buffer reused by every       *)
(* iteration, and three printers that locate their header in the buffer    *)
(* by pointer arithmetic.                                                  *)
(***************************************************************************)
EXTENDS Integers, Sequences, FiniteSets, TLC

VARIABLES
    pc,        \* position of main: "start", "recv", "eth", "ip", "tcp", "exited"
    sock,      \* raw_socket: "none", "open" or "closed"
    buffer,    \* the malloc'ed buffer: its first bytes one by one (head), the
               \* value of all the later ones (tail), and its size
    msg_len,   \* the last return value of recvfrom
    hist,      \* history: descriptors of the frames received so far
    outs,      \* history: per received frame, the reports written to stdout
    reads,     \* per printer of the current iteration, the byte range it read
    stderr     \* the lines written to stderr

vars == <<pc, sock, buffer, msg_len, hist, outs, reads, stderr>>

---------------------------------------------------------------------------
(* Bounds of the model *)

\* Number of frames one run receives.
MaxFrames == 3

\* Longest frame the capture source delivers in the model.
MaxFrameLen == 94

---------------------------------------------------------------------------
(* Program constants *)

BUF_SIZE == 65536

\* sizeof(struct ethhdr)
ETH_HLEN == 14

\* sizeof(struct iphdr): the fixed part the printer's struct covers
IPHDR_SIZE == 20

\* sizeof(struct tcphdr)
TCPHDR_SIZE == 20

---------------------------------------------------------------------------
(* The frames the capture source may deliver *)

\* <<len, ihl, proto>>: len bytes captured of a frame whose IPv4 header
\* declares ihl words and protocol proto.  Frames too short to hold a header,
\* frames that hold it exactly, frames cut inside the next header, an IHL
\* below the minimum and the longest IHL, with and without TCP inside.
Shapes ==
    { <<0, 5, 6>>, <<10, 5, 6>>,
      <<34, 5, 6>>, <<34, 2, 6>>,
      <<54, 5, 6>>, <<54, 5, 17>>, <<54, 2, 6>>,
      <<58, 6, 6>>,
      <<74, 15, 17>>, <<74, 15, 6>>,
      <<MaxFrameLen, 15, 6>> }

\* A frame as its sender built it; the TCP header it declares has doff words.
FrameDescs ==
    { [len |-> s[1], ihl |-> s[2], proto |-> s[3], doff |-> 5] : s \in Shapes }

\* Byte i of the frame d.  Ether-type 0x0800, version 4, the declared IHL,
\* protocol and DOFF, SYN set; every other byte differs from its neighbours.
FrameByte(d, i) ==
    LET tcp == ETH_HLEN + 4 * d.ihl IN
    CASE i = 12       -> 8
      [] i = 13       -> 0
      [] i = 14       -> 64 + d.ihl
      [] i = 23       -> d.proto
      [] i = tcp + 12 /\ i > 23 -> 16 * d.doff
      [] i = tcp + 13 /\ i > 23 -> 2
      [] OTHER        -> (3 * i + d.len + d.proto) % 256

\* Contents an uninitialised allocation may hold.
InitFills == {0, 255}

---------------------------------------------------------------------------
(* Memory *)

Window == 0 .. (MaxFrameLen - 1)

\* malloc(BUF_SIZE): indeterminate contents
malloc(fill) ==
    [head |-> [i \in Window |-> fill], tail |-> fill, size |-> BUF_SIZE]

\* buffer[i] for any i inside the allocation
ByteAt(buf, i) == IF i \in DOMAIN buf.head THEN buf.head[i] ELSE buf.tail

\* recvfrom(raw_socket, buffer, BUF_SIZE, ...): the first len bytes of the
\* buffer are overwritten, the others keep what they held.
recvfrom(buf, d) ==
    [buf EXCEPT !.head = [i \in Window |-> IF i < d.len THEN FrameByte(d, i)
                                                          ELSE buf.head[i]]]

\* A 16-bit / 32-bit load on the little-endian host
Load16(buf, off) == ByteAt(buf, off) + 256 * ByteAt(buf, off + 1)
\* A 32-bit value is kept as its four base-256 digits, most significant
\* first (TLC's integers are too narrow for 2^32 - 1).
Load32(buf, off) ==
    <<ByteAt(buf, off + 3), ByteAt(buf, off + 2),
      ByteAt(buf, off + 1), ByteAt(buf, off)>>

\* Byte swaps of <arpa/inet.h> on the little-endian host
ntohs(x) == (x % 256) * 256 + (x \div 256)
ntohl(x) == <<x[4], x[3], x[2], x[1]>>

Bit(b, n) == (b \div (2 ^ n)) % 2

---------------------------------------------------------------------------
(* Header location *)

\* buffer + sizeof(struct ethhdr)
IpOffset == ETH_HLEN

\* Variant: the whole first IPv4 byte taken for the header length
ip_ihl_unmasked(buf) == ByteAt(buf, IpOffset)

\* ip->ihl: the low four bits of the first IPv4 byte
ip_ihl(buf) == ByteAt(buf, IpOffset) % 16

\* Variant: the TCP header sought after a 20-byte IPv4 header, IHL ignored
TcpOffset_fixed(buf) == IPHDR_SIZE + ETH_HLEN

\* buffer + ip->ihl * 4 + sizeof(struct ethhdr)
TcpOffset(buf) == ip_ihl(buf) * 4 + ETH_HLEN

\* Variant: an empty read taken for a failed one
recv_failed_or_empty(n) == n <= 0

\* msg_len < 0
recv_failed(n) == n < 0

---------------------------------------------------------------------------
(* The reports *)

EthernetReport(buf) ==
    [kind   |-> "eth",
     h_dest   |-> [k \in 0 .. 5 |-> ByteAt(buf, k)],
     h_source |-> [k \in 0 .. 5 |-> ByteAt(buf, 6 + k)],
     h_proto  |-> Load16(buf, 12)]

IpReport(buf) ==
    LET ip == IpOffset IN
    [kind     |-> "ip",
     version  |-> ByteAt(buf, ip) \div 16,
     ihl      |-> ip_ihl(buf),
     ihl_bytes |-> ip_ihl(buf) * 4,
     tos      |-> ByteAt(buf, ip + 1),
     tot_len  |-> ntohs(Load16(buf, ip + 2)),
     id       |-> ntohs(Load16(buf, ip + 4)),
     ttl      |-> ByteAt(buf, ip + 8),
     protocol |-> ByteAt(buf, ip + 9),
     check    |-> ntohs(Load16(buf, ip + 10)),
     saddr    |-> [k \in 0 .. 3 |-> ByteAt(buf, ip + 12 + k)],
     daddr    |-> [k \in 0 .. 3 |-> ByteAt(buf, ip + 16 + k)]]

TcpReport(buf) ==
    LET tcp == TcpOffset(buf) IN
    [kind    |-> "tcp",
     source  |-> ntohs(Load16(buf, tcp)),
     dest    |-> ntohs(Load16(buf, tcp + 2)),
     seq     |-> ntohl(Load32(buf, tcp + 4)),
     ack_seq |-> ntohl(Load32(buf, tcp + 8)),
     doff    |-> ByteAt(buf, tcp + 12) \div 16,
     doff_bytes |-> (ByteAt(buf, tcp + 12) \div 16) * 4,
     urg     |-> Bit(ByteAt(buf, tcp + 13), 5),
     ack     |-> Bit(ByteAt(buf, tcp + 13), 4),
     psh     |-> Bit(ByteAt(buf, tcp + 13), 3),
     rst     |-> Bit(ByteAt(buf, tcp + 13), 2),
     syn     |-> Bit(ByteAt(buf, tcp + 13), 1),
     fin     |-> Bit(ByteAt(buf, tcp + 13), 0),
     window  |-> ntohs(Load16(buf, tcp + 14)),
     check   |-> ntohs(Load16(buf, tcp + 16)),
     urg_ptr |-> Load16(buf, tcp + 18)]

\* The current iteration's output grows by one report.
Emit(r) == [outs EXCEPT ![Len(outs)] = Append(@, r)]

---------------------------------------------------------------------------
(* The program *)

Init ==
    /\ pc = "start"
    /\ sock = "none"
    /\ buffer \in {malloc(f) : f \in InitFills}
    /\ msg_len = 0
    /\ hist = <<>>
    /\ outs = <<>>
    /\ reads = <<>>
    /\ stderr = <<>>

\* socket(AF_PACKET, SOCK_RAW, htons(ETH_P_ALL)) succeeds
socket_ok ==
    /\ pc = "start"
    /\ sock' = "open"
    /\ pc' = "recv"
    /\ UNCHANGED <<buffer, msg_len, hist, outs, reads, stderr>>

\* raw_socket < 0: exit(EXIT_FAILURE)
socket_failed ==
    /\ pc = "start"
    /\ stderr' = Append(stderr, "Failed to create raw socket")
    /\ pc' = "exited"
    /\ UNCHANGED <<sock, buffer, msg_len, hist, outs, reads>>

\* recvfrom delivers a frame and the loop body goes on to the printers
main_recv_frame ==
    /\ pc = "recv"
    /\ Len(hist) < MaxFrames
    /\ \E d \in FrameDescs :
         /\ ~ recv_failed(d.len)
         /\ buffer' = recvfrom(buffer, d)
         /\ msg_len' = d.len
         /\ hist' = Append(hist, d)
    /\ outs' = Append(outs, <<>>)
    /\ reads' = <<>>
    /\ pc' = "eth"
    /\ UNCHANGED <<sock, stderr>>

\* msg_len < 0: return -1, with the socket still open and the buffer
\* not freed (close and free follow a loop that has no break)
main_recv_error ==
    /\ pc = "recv"
    /\ \E n \in {-1} \cup {d.len : d \in FrameDescs} :
         /\ recv_failed(n)
         /\ msg_len' = n
    /\ stderr' = Append(stderr, "No data received due to error")
    /\ pc' = "exited"
    /\ UNCHANGED <<sock, buffer, hist, outs, reads>>

print_ethernet_header ==
    /\ pc = "eth"
    /\ outs' = Emit(EthernetReport(buffer))
    /\ reads' = Append(reads, [stage |-> "eth", lo |-> 0, hi |-> ETH_HLEN])
    /\ pc' = "ip"
    /\ UNCHANGED <<sock, buffer, msg_len, hist, stderr>>

print_ip_header ==
    /\ pc = "ip"
    /\ outs' = Emit(IpReport(buffer))
    /\ reads' = Append(reads, [stage |-> "ip", lo |-> IpOffset,
                               hi |-> IpOffset + IPHDR_SIZE])
    /\ pc' = "tcp"
    /\ UNCHANGED <<sock, buffer, msg_len, hist, stderr>>

print_tcp_packet ==
    /\ pc = "tcp"
    /\ outs' = Emit(TcpReport(buffer))
    /\ reads' = Append(reads, [stage |-> "tcp", lo |-> TcpOffset(buffer),
                               hi |-> TcpOffset(buffer) + TCPHDR_SIZE])
    /\ pc' = "recv"
    /\ UNCHANGED <<sock, buffer, msg_len, hist, stderr>>

Next ==
    \/ socket_ok
    \/ socket_failed
    \/ main_recv_frame
    \/ main_recv_error
    \/ print_ethernet_header
    \/ print_ip_header
    \/ print_tcp_packet

Spec == Init /\ [][Next]_vars

\* The printers are straight-line code: once a frame is in, each runs.
FairSpec ==
    /\ Spec
    /\ WF_vars(print_ethernet_header)
    /\ WF_vars(print_ip_header)
    /\ WF_vars(print_tcp_packet)

---------------------------------------------------------------------------
(* Vocabulary of the properties *)

\* The frame of the current (or last) iteration and what was printed for it
Cur == hist[Len(hist)]
Out == outs[Len(outs)]

\* The loop body has run to its end for the last frame received.
FrameDone == Len(hist) > 0 /\ pc \in {"recv", "exited"}

Reported(kind) == \E i \in 1 .. Len(Out) : Out[i].kind = kind
ReadBy(stage) == \E i \in 1 .. Len(reads) : reads[i].stage = stage

\* The IPv4 header the frame declares lies wholly inside the frame.
IpResolves(d) == d.ihl >= 5 /\ d.len >= 14 + 4 * d.ihl

\* A big-endian 16-bit field
BE16(buf, off) == ByteAt(buf, off) * 256 + ByteAt(buf, off + 1)
BE32(buf, off) ==
    <<ByteAt(buf, off), ByteAt(buf, off + 1),
      ByteAt(buf, off + 2), ByteAt(buf, off + 3)>>

---------------------------------------------------------------------------
(* Properties *)

\* C1: a frame shorter than the 14-byte Ethernet header yields the one
\* diagnostic TruncatedHeader{Ethernet, 14, L} and no Ethernet, IPv4 or TCP
\* report.
C1_ShortFrameRejected ==
    (FrameDone /\ Cur.len < 14) =>
        /\ ~ Reported("eth") /\ ~ Reported("ip") /\ ~ Reported("tcp")
        /\ Len(Out) = 1
        /\ Out[1].kind = "TruncatedHeader"

\* C2: a TCP frame shorter than 14 + IHL*4 + DOFF*4 yields no TCP report,
\* and no printer reads a byte at an index >= L.
C2_TcpTruncated ==
    /\ (FrameDone /\ IpResolves(Cur) /\ Cur.proto = 6
          /\ Cur.len < 14 + 4 * Cur.ihl + 4 * Cur.doff) => ~ Reported("tcp")
    /\ \A i \in 1 .. Len(reads) : reads[i].hi <= msg_len

\* C3: a frame whose IHL nibble is below 5 yields no IPv4 report and no TCP
\* header is located or reported.
C3_InvalidIhlRejected ==
    (FrameDone /\ Cur.len > 14 /\ Cur.ihl < 5) =>
        ~ Reported("ip") /\ ~ Reported("tcp") /\ ~ ReadBy("tcp")

\* C4: when the IPv4 header resolves with a protocol other than 6, no TCP
\* header is read or reported.
C4_TcpOnlyForProtocol6 ==
    (FrameDone /\ IpResolves(Cur) /\ Cur.proto # 6) =>
        ~ Reported("tcp") /\ ~ ReadBy("tcp")

\* C5: for IHL in 5..15 and L >= 14 + IHL*4 the IPv4 report is emitted with
\* header length IHL words = IHL*4 bytes, and the TCP header is read at
\* offset exactly 14 + IHL*4, where the IPv4 header ends.
C5_IpLengthAndTcpAnchor ==
    (FrameDone /\ IpResolves(Cur)) =>
        LET tcp == 14 + 4 * Cur.ihl IN
        /\ \E i \in 1 .. Len(Out) :
             /\ Out[i].kind = "ip"
             /\ Out[i].ihl = Cur.ihl
             /\ Out[i].ihl_bytes = 4 * Cur.ihl
        /\ \E i \in 1 .. Len(reads) :
             /\ reads[i].stage = "ip"
             /\ reads[i].lo = 14
        /\ \E i \in 1 .. Len(reads) :
             /\ reads[i].stage = "tcp"
             /\ reads[i].lo = tcp
        /\ (Cur.len >= tcp + 2 =>
              \E i \in 1 .. Len(Out) :
                 /\ Out[i].kind = "tcp"
                 /\ Out[i].source =
                      FrameByte(Cur, tcp) * 256 + FrameByte(Cur, tcp + 1))

C5_Witness ==
    /\ FrameDone
    /\ Cur.ihl = 15
    /\ Cur.len >= 14 + 60 + 20
    /\ Len(hist) > 1
    /\ Reported("tcp")

\* C6: every multi-byte field reported is the big-endian value of the bytes
\* it is stored in.
C6_FieldsBigEndian ==
    LET tcp == 14 + 4 * (ByteAt(buffer, 14) % 16) IN
    Len(outs) > 0 =>
      \A i \in 1 .. Len(Out) :
        /\ Out[i].kind = "eth" => Out[i].h_proto = BE16(buffer, 12)
        /\ Out[i].kind = "ip" =>
             /\ Out[i].tot_len = BE16(buffer, 16)
             /\ Out[i].id = BE16(buffer, 18)
             /\ Out[i].check = BE16(buffer, 24)
        /\ Out[i].kind = "tcp" =>
             /\ Out[i].source = BE16(buffer, tcp)
             /\ Out[i].dest = BE16(buffer, tcp + 2)
             /\ Out[i].seq = BE32(buffer, tcp + 4)
             /\ Out[i].ack_seq = BE32(buffer, tcp + 8)
             /\ Out[i].window = BE16(buffer, tcp + 14)
             /\ Out[i].check = BE16(buffer, tcp + 16)
             /\ Out[i].urg_ptr = BE16(buffer, tcp + 18)

\* C7: the loop goes Waiting -> Processing -> Waiting for every frame,
\* whatever the frame holds; a frame is requested only while Waiting; the
\* loop is left only when the read fails; and Processing always comes back
\* to Waiting.
C7_LoopAlternates ==
    /\ [][ /\ (pc = "recv" =>
                 \/ pc' = "eth" /\ msg_len' >= 0 /\ Len(hist') = Len(hist) + 1
                 \/ pc' = "exited" /\ msg_len' < 0 /\ hist' = hist)
           /\ (pc = "eth" => pc' = "ip")
           /\ (pc = "ip" => pc' = "tcp")
           /\ (pc = "tcp" => pc' = "recv")
           /\ (pc \in {"eth", "ip", "tcp"} => hist' = hist /\ buffer' = buffer)
           /\ (pc' = "exited" => pc \in {"start", "recv"})
         ]_vars
    /\ (pc \in {"eth", "ip", "tcp"}) ~> (pc = "recv")

C7_Witness ==
    /\ pc = "recv"
    /\ Len(hist) = 2
    /\ hist[1].len < 14
    /\ hist[2].ihl < 5
    /\ Len(outs[1]) = 3
    /\ Len(outs[2]) = 3

\* C8: the program never ends with the raw socket opened and not closed.
C8_SocketReleased == pc = "exited" => sock # "open"

\* C9: the reports for a frame depend on that frame only: the same frame
\* received twice in a run, after different earlier frames, is reported the
\* same.
C9_NoCrossFrameState ==
    \A i, j \in 1 .. Len(hist) :
        (hist[i] = hist[j] /\ Len(outs[i]) = 3 /\ Len(outs[j]) = 3)
            => outs[i] = outs[j]

\* C10: every byte read lies inside the allocation: the Ethernet header at
\* [0,14), the IPv4 fixed header at [14,34), the TCP header from an offset in
\* 14..74 to an end <= 94 < BUF_SIZE.
C10_ReadsInsideBuffer ==
    /\ msg_len <= buffer.size
    /\ \A i \in 1 .. Len(reads) :
         /\ 0 <= reads[i].lo
         /\ reads[i].hi <= buffer.size
         /\ reads[i].stage = "eth" => reads[i].lo = 0 /\ reads[i].hi = 14
         /\ reads[i].stage = "ip" => reads[i].lo = 14 /\ reads[i].hi = 34
         /\ reads[i].stage = "tcp" =>
              /\ reads[i].lo \in 14 .. 74
              /\ reads[i].hi = reads[i].lo + 20
              /\ reads[i].hi <= 94
    /\ 94 < buffer.size

C10_Witness ==
    /\ msg_len < 14
    /\ \E i \in 1 .. Len(reads) :
         /\ reads[i].stage = "tcp"
         /\ reads[i].lo = 74
         /\ reads[i].hi = 94

====
